---- MODULE Spec2Model ----
(***************************************************************************)
(* Thread reconstruction of pillbug's post page (src/views/postpage.tsx).  *)
(*                                                                         *)
(* fetchPostInfoTree either builds a tree of nodes from the requested      *)
(* status and its context (locateRootNode, then attachStatusesToTree), or  *)
(* patches a freshly written comment into the tree it built before.        *)
(*                                                                         *)
(* Nodes are JavaScript objects that are shared by reference between the   *)
(* tree, the idMap and the local variables, so they live in a heap         *)
(* (nodes) and are named by their index in it.  A post id is a number in   *)
(* 1..NumIds; the code only ever compares ids for equality, so the         *)
(* requested status always carries id 1.  NULL is the null in_reply_to_id. *)
(*                                                                         *)
(* The feed (src/components/feed/index.tsx) hands the statuses it fetches  *)
(* to a rule engine and shows what the engine did not hide; it has a       *)
(* specification of its own, FeedSpec.                                     *)
(***************************************************************************)
EXTENDS Integers, Sequences, FiniteSets, TLC

\* Bounds of the model: the number of post ids, the number of statuses
\* fetched besides the requested one (context and new comments together),
\* and the number of times a comment is patched in once more.
NumIds == 3
MaxPosts == 2
MaxRepeats == 1
\* The number of rules of a feed.
MaxRules == 2

NULL == 0
Ids == 1..NumIds
RequestedId == 1

\* megalodon Status, reduced to the two fields the tree code reads.
Status == [id : Ids, in_reply_to_id : Ids \cup {NULL}]
NoStatus == [id |-> NULL, in_reply_to_id |-> NULL]
\* A message: its fixed text, the value interpolated into it, and the
\* description of a caught failure that follows it ("" when there is none).
NoMessage == [text |-> "", arg |-> NULL, detail |-> ""]

RECURSIVE SeqsUpTo(_, _)
SeqsUpTo(S, n) ==
    IF n = 0 THEN {<<>>}
    ELSE LET shorter == SeqsUpTo(S, n - 1)
         IN  shorter \cup {Append(s, x) : s \in {t \in shorter : Len(t) = n - 1}, x \in S}

\* new PostTreeStatusNode(status, children, highlighted = false)
PostTreeStatusNode(status, children, highlighted) ==
    [kind |-> "status", status |-> status, message |-> NoMessage,
     children |-> children, highlighted |-> highlighted]

\* new PostTreePlaceholderNode(message, children, highlighted = false)
PostTreePlaceholderNode(message, children, highlighted) ==
    [kind |-> "placeholder", status |-> NoStatus, message |-> message,
     children |-> children, highlighted |-> highlighted]

\* Array.prototype.findIndex((s) => s.id === id), 1-based, 0 when absent.
RECURSIVE FindIndexFrom(_, _, _)
FindIndexFrom(statuses, id, i) ==
    IF i > Len(statuses) THEN 0
    ELSE IF statuses[i].id = id THEN i
    ELSE FindIndexFrom(statuses, id, i + 1)

FindIndex(statuses, id) == FindIndexFrom(statuses, id, 1)

\* Array.prototype.splice(i, 1): the array without its i-th element.
Splice(statuses, i) ==
    [k \in 1..(Len(statuses) - 1) |-> IF k < i THEN statuses[k] ELSE statuses[k + 1]]

\* node.children.push(child) on the heap.
PushChild(heap, parent, child) ==
    [heap EXCEPT ![parent].children = Append(@, child)]

\* An empty Map<string, IPostTreeNode>: 0 stands for "no entry".
EmptyIdMap == [i \in Ids |-> 0]

(***************************************************************************)
(* The build state: the locals of fetchPostInfoTree's full-build branch.   *)
(***************************************************************************)

\* The ids of the statuses a requested status can be a reblog of: not the
\* id of the requested status, the wrapper, itself.
ReblogIds == {NumIds}

\* postIdForContext without the reblog of line 127.
PostIdForContext_OfWrapper(requested, reblogId) == requested.id

\* Lines 126-128: requestedStatus.reblog?.id ?? requestedStatus.id.
PostIdForContext(requested, reblogId) ==
    IF reblogId # NULL THEN reblogId ELSE requested.id

\* Lines 136-146 and 189-196: the pool, the empty idMap, the highlighted
\* node of the requested status and its idMap entry.
BeginBuild(requested, ctx) ==
    [pool |-> ctx,
     heap |-> <<PostTreeStatusNode(requested, <<>>, TRUE)>>,
     root |-> 1,
     idMap |-> [EmptyIdMap EXCEPT ![requested.id] = 1]]

\* ParentStatusIndex looking for the parent of the requested status (the
\* const status of line 194) instead of the parent of the current root.
ParentStatusIndex_OfRequested(b) ==
    FindIndex(b.pool, b.heap[1].status.in_reply_to_id)

\* The index of the parent of the current root in the pool (lines 200-204).
ParentStatusIndex(b) ==
    FindIndex(b.pool, b.heap[b.root].status.in_reply_to_id)

\* The loop of locateRootNode goes round once more (lines 199, 205).
LocateContinues(b, requested) ==
    /\ requested.in_reply_to_id # NULL
    /\ ParentStatusIndex(b) # 0

\* One iteration of the loop of locateRootNode (lines 210-215).  The idMap
\* entry is written under status.id, and status is the requested status.
LocateStep(b, requested) ==
    LET i == ParentStatusIndex(b)
        newRoot == Len(b.heap) + 1
    IN  [pool |-> Splice(b.pool, i),
         heap |-> Append(b.heap, PostTreeStatusNode(b.pool[i], <<b.root>>, FALSE)),
         root |-> newRoot,
         idMap |-> [b.idMap EXCEPT ![requested.id] = newRoot]]

RECURSIVE locateRootNode(_, _)
locateRootNode(build, requested) ==
    CHOOSE r \in
        {IF LocateContinues(b, requested)
         THEN locateRootNode(LocateStep(b, requested), requested)
         ELSE b : b \in {build}} : TRUE

\* AttachAt without the numAdded += 1 of lines 239 and 249.
AttachAt_NotCounted(p, i, parent) ==
    LET s == Len(p.heap) + 1
    IN  [p EXCEPT !.heap = PushChild(Append(p.heap,
                                PostTreeStatusNode(p.pool[i], <<>>, FALSE)), parent, s),
                  !.idMap = [p.idMap EXCEPT ![p.pool[i].id] = s],
                  !.pool = Splice(p.pool, i)]

\* AttachAt with the node it creates highlighted.
AttachAt_Highlighted(p, i, parent) ==
    LET s == Len(p.heap) + 1
    IN  [p EXCEPT !.heap = PushChild(Append(p.heap,
                                PostTreeStatusNode(p.pool[i], <<>>, TRUE)), parent, s),
                  !.idMap = [p.idMap EXCEPT ![p.pool[i].id] = s],
                  !.numAdded = p.numAdded + 1,
                  !.pool = Splice(p.pool, i)]

\* Lines 236-240 and 246-250: wrap pool[i], index it, push it to parent,
\* count it and splice it out of the pool.
AttachAt(p, i, parent) ==
    LET s == Len(p.heap) + 1
    IN  [p EXCEPT !.heap = PushChild(Append(p.heap,
                                PostTreeStatusNode(p.pool[i], <<>>, FALSE)), parent, s),
                  !.idMap = [p.idMap EXCEPT ![p.pool[i].id] = s],
                  !.numAdded = p.numAdded + 1,
                  !.pool = Splice(p.pool, i)]

\* AttachFrom that passes over the statuses with a null in_reply_to_id.
RECURSIVE AttachFrom_SkipsTopLevel(_, _)
AttachFrom_SkipsTopLevel(pass, i) ==
    CHOOSE r \in
        {IF i > Len(p.pool) THEN p
         ELSE IF p.pool[i].in_reply_to_id = NULL
              THEN AttachFrom_SkipsTopLevel(p, i + 1)
              ELSE IF p.idMap[p.pool[i].in_reply_to_id] # 0
              THEN AttachFrom_SkipsTopLevel(
                       AttachAt(p, i, p.idMap[p.pool[i].in_reply_to_id]), i + 1)
              ELSE AttachFrom_SkipsTopLevel(p, i + 1) : p \in {pass}} : TRUE

\* AttachFrom that does not leave a status whose parent is not indexed yet
\* for a later pass but pushes it under the root at once.
RECURSIVE AttachFrom_UnresolvedToRoot(_, _)
AttachFrom_UnresolvedToRoot(pass, i) ==
    CHOOSE r \in
        {IF i > Len(p.pool) THEN p
         ELSE IF p.pool[i].in_reply_to_id = NULL
              THEN AttachFrom_UnresolvedToRoot(AttachAt(p, i, p.root), i + 1)
              ELSE IF p.idMap[p.pool[i].in_reply_to_id] # 0
              THEN AttachFrom_UnresolvedToRoot(
                       AttachAt(p, i, p.idMap[p.pool[i].in_reply_to_id]), i + 1)
              ELSE AttachFrom_UnresolvedToRoot(AttachAt(p, i, p.root), i + 1) :
            p \in {pass}} : TRUE

\* The for loop of attachStatusesToTree (lines 232-253) from index i on.
\* After a splice the loop still increments i, so the element that moved
\* into position i is not looked at in this pass.  (The pass state is bound
\* to p by a singleton set so that it is evaluated once per iteration.)
RECURSIVE AttachFrom(_, _)
AttachFrom(pass, i) ==
    CHOOSE r \in
        {IF i > Len(p.pool) THEN p
         ELSE IF p.pool[i].in_reply_to_id = NULL
              THEN AttachFrom(AttachAt(p, i, p.root), i + 1)
              ELSE IF p.idMap[p.pool[i].in_reply_to_id] # 0
              THEN AttachFrom(AttachAt(p, i, p.idMap[p.pool[i].in_reply_to_id]), i + 1)
              ELSE AttachFrom(p, i + 1) : p \in {pass}} : TRUE

\* MissingPostStep with the pop of line 260 replaced by a read of the last
\* element: the pool keeps its length.
MissingPostStep_NoPop(p) ==
    LET status == p.pool[Len(p.pool)]
        statusNode == Len(p.heap) + 1
        missingPostMarker == Len(p.heap) + 2
    IN  [p EXCEPT !.heap = PushChild(
                      p.heap \o <<PostTreeStatusNode(status, <<>>, FALSE),
                                  PostTreePlaceholderNode(
                                      [text |-> "Missing post id",
                                       arg |-> status.in_reply_to_id,
                                       detail |-> ""],
                                      <<statusNode>>, FALSE)>>,
                      p.root, statusNode),
                  !.idMap = [p.idMap EXCEPT ![status.id] = missingPostMarker]]

\* Lines 259-269: nothing was attached in the pass.  The last status of
\* the pool is popped; its node is made the child of a new placeholder,
\* the idMap entry of the status is the placeholder, and the node that is
\* pushed under the root is the status node.
MissingPostStep(p) ==
    LET status == p.pool[Len(p.pool)]
        statusNode == Len(p.heap) + 1
        missingPostMarker == Len(p.heap) + 2
    IN  [p EXCEPT !.pool = SubSeq(p.pool, 1, Len(p.pool) - 1),
                  !.heap = PushChild(
                      p.heap \o <<PostTreeStatusNode(status, <<>>, FALSE),
                                  PostTreePlaceholderNode(
                                      [text |-> "Missing post id",
                                       arg |-> status.in_reply_to_id,
                                       detail |-> ""],
                                      <<statusNode>>, FALSE)>>,
                      p.root, statusNode),
                  !.idMap = [p.idMap EXCEPT ![status.id] = missingPostMarker]]

\* AttachPass that takes the placeholder step whenever the pass leaves a
\* status in the pool, whether or not the pass attached one.
AttachPass_IgnoresNumAdded(b) ==
    CHOOSE r \in
        {[pool |-> q.pool, heap |-> q.heap, root |-> q.root, idMap |-> q.idMap] :
            q \in {IF Len(p.pool) # 0 THEN MissingPostStep(p) ELSE p :
                      p \in {AttachFrom([pool |-> b.pool, heap |-> b.heap,
                                         root |-> b.root, idMap |-> b.idMap,
                                         numAdded |-> 0], 1)}}} : TRUE

\* One iteration of the while loop of attachStatusesToTree (lines 230-269).
AttachPass(b) ==
    CHOOSE r \in
        {[pool |-> q.pool, heap |-> q.heap, root |-> q.root, idMap |-> q.idMap] :
            q \in {IF Len(p.pool) # 0 /\ p.numAdded = 0 THEN MissingPostStep(p) ELSE p :
                      p \in {AttachFrom([pool |-> b.pool, heap |-> b.heap,
                                         root |-> b.root, idMap |-> b.idMap,
                                         numAdded |-> 0], 1)}}} : TRUE

RECURSIVE attachStatusesToTree(_)
attachStatusesToTree(build) ==
    CHOOSE r \in
        {IF Len(b.pool) > 0 THEN attachStatusesToTree(AttachPass(b)) ELSE b :
            b \in {build}} : TRUE

\* Lines 136-150 as a function of the fetched data.
BuildTree(requested, ctx) ==
    attachStatusesToTree(locateRootNode(BeginBuild(requested, ctx), requested))

(***************************************************************************)
(* The catch of the full build (lines 151-176).                            *)
(***************************************************************************)

\* What the try block can throw: an Error with its message (the one of
\* line 133 stands for those of the client too), or a value that is not
\* an Error.
Thrown ==
    {[isError |-> TRUE, message |-> "status context undefined"],
     [isError |-> FALSE, message |-> ""]}

\* The description of lines 153-170: e.message of an Error, "unknown
\* error" of anything else.
FailureDescription(e) == IF e.isError THEN e.message ELSE "unknown error"

\* The catch without the error node of lines 153-170.
ContextErrorTree_NoErrorNode(requested, e) ==
    [heap |-> <<PostTreeStatusNode(requested, <<>>, TRUE)>>, root |-> 1]

\* Lines 151-176: the error node, and the node of the requested status
\* over it.
ContextErrorTree(requested, e) ==
    [heap |-> <<PostTreePlaceholderNode(
                    [text |-> "Failed to get context for post",
                     arg |-> requested.id,
                     detail |-> FailureDescription(e)], <<>>, FALSE),
                PostTreeStatusNode(requested, <<1>>, TRUE)>>,
     root |-> 2]

(***************************************************************************)
(* The incremental path of fetchPostInfoTree (lines 54-117).               *)
(***************************************************************************)

\* tryAttachTo (lines 76-98) on w = [heap, visited, success, thrown].  A
\* thrown Error unwinds every pending call; the return after the push only
\* leaves the call on the node that matched, so its children are not
\* walked while the loops of the callers go on.
RECURSIVE tryAttachTo(_, _, _)
RECURSIVE WalkChildren(_, _, _, _)
\* tryAttachTo without the visited.push of line 85.
tryAttachTo_NoVisitedPush(w, node, comment) ==
    LET status == w.heap[node].status
    IN  IF w.thrown THEN w
        ELSE IF w.heap[node].kind = "status"
        THEN IF status.id \in w.visited
             THEN [w EXCEPT !.thrown = TRUE]
             ELSE IF status.id = comment.in_reply_to_id
             THEN [w EXCEPT !.heap = PushChild(
                                Append(w.heap, PostTreeStatusNode(comment, <<>>, TRUE)),
                                node, Len(w.heap) + 1),
                            !.success = TRUE]
             ELSE WalkChildren(w, node, 1, comment)
        ELSE WalkChildren(w, node, 1, comment)

tryAttachTo(w, node, comment) ==
    LET status == w.heap[node].status
    IN  IF w.thrown THEN w
        ELSE IF w.heap[node].kind = "status"
        THEN IF status.id \in w.visited
             THEN [w EXCEPT !.thrown = TRUE]
             ELSE IF status.id = comment.in_reply_to_id
             THEN [w EXCEPT !.visited = @ \cup {status.id},
                            !.heap = PushChild(
                                Append(w.heap, PostTreeStatusNode(comment, <<>>, TRUE)),
                                node, Len(w.heap) + 1),
                            !.success = TRUE]
             ELSE WalkChildren([w EXCEPT !.visited = @ \cup {status.id}], node, 1, comment)
        ELSE WalkChildren(w, node, 1, comment)

\* for (const child of node.children) tryAttachTo(child)  (lines 95-97)
WalkChildren(w, node, k, comment) ==
    IF w.thrown \/ k > Len(w.heap[node].children) THEN w
    ELSE WalkChildren(tryAttachTo(w, w.heap[node].children[k], comment),
                      node, k + 1, comment)

\* PatchTree without the test of success of line 108: the comment is
\* pushed under the root in every case.
PatchTree_AlwaysUnderRoot(heap, root, comment) ==
    LET w == tryAttachTo([heap |-> heap, visited |-> {}, success |-> FALSE,
                          thrown |-> FALSE], root, comment)
    IN  IF w.thrown THEN w
        ELSE [w EXCEPT !.heap = PushChild(
                          Append(w.heap, PostTreeStatusNode(comment, <<>>, TRUE)),
                          root, Len(w.heap) + 1)]

\* PatchTree without the fallback of lines 108-115.
PatchTree_NoFallback(heap, root, comment) ==
    tryAttachTo([heap |-> heap, visited |-> {}, success |-> FALSE,
                 thrown |-> FALSE], root, comment)

\* Lines 70-117: walk from the root, fall back to the root on no success.
PatchTree(heap, root, comment) ==
    LET w == tryAttachTo([heap |-> heap, visited |-> {}, success |-> FALSE,
                          thrown |-> FALSE], root, comment)
    IN  IF w.thrown \/ w.success THEN w
        ELSE [w EXCEPT !.heap = PushChild(
                          Append(w.heap, PostTreeStatusNode(comment, <<>>, TRUE)),
                          root, Len(w.heap) + 1)]

(***************************************************************************)
(* The feed (src/components/feed/index.tsx).  Its rules are data; the      *)
(* engine that evaluates them (./feed-engine) is modelled from its         *)
(* contract: for each post, for each rule in order, the action of the rule *)
(* is applied when its condition holds.                                    *)
(***************************************************************************)

\* new FeedRuleProperties(name, conditions, event); the name is only for
\* diagnostics and is left out.
FeedRuleProperties(conditions, event) == [conditions |-> conditions, event |-> event]

\* The event of a rule: its type and, for applyLabel, params.label.
HidePost == [type |-> "hidePost", label |-> ""]
AttachLinked == [type |-> "attachLinked", label |-> ""]
ApplyLabel(label) == [type |-> "applyLabel", label |-> label]

\* defaultHomeFeedRules with the first rule hiding the posts that are not
\* replies.
defaultHomeFeedRules_HidesTopLevel ==
    <<FeedRuleProperties(
          [all |-> <<[fact |-> "in_reply_to_id", operator |-> "equal", value |-> NULL]>>],
          HidePost),
      FeedRuleProperties(
          [all |-> <<[fact |-> "id", operator |-> "notEqual", value |-> NULL]>>],
          AttachLinked)>>

\* Lines 121-148: "hide replies from feed" and "attach linked ancestor
\* posts to all posts when available".
defaultHomeFeedRules ==
    <<FeedRuleProperties(
          [all |-> <<[fact |-> "in_reply_to_id", operator |-> "notEqual", value |-> NULL]>>],
          HidePost),
      FeedRuleProperties(
          [all |-> <<[fact |-> "id", operator |-> "notEqual", value |-> NULL]>>],
          AttachLinked)>>

\* The rules a feed is given: one comparison of a field with null, and one
\* of the three events.
FeedRules ==
    {FeedRuleProperties([all |-> <<c>>], e) :
        c \in [fact : {"id", "in_reply_to_id"}, operator : {"equal", "notEqual"},
               value : {NULL}],
        e \in {HidePost, AttachLinked, ApplyLabel("pillbug")}}

\* The statuses a feed fetches: top-level posts and replies.
FeedStatuses == [id : 1..2, in_reply_to_id : {NULL, NumIds}]

\* One comparison of a condition: the field of the post against the value.
ComparisonHolds(c, post) ==
    IF c.operator = "equal" THEN post[c.fact] = c.value ELSE post[c.fact] # c.value

\* A condition { all: [...] } holds when each of its comparisons does.
ConditionHolds(conditions, post) ==
    \A k \in DOMAIN conditions.all : ComparisonHolds(conditions.all[k], post)

\* The action of a rule whose condition holds: hidePost sets hide,
\* applyLabel adds its label to the labels, attachLinked marks the post.
ApplyEvent(event, annotated) ==
    IF event.type = "hidePost" THEN [annotated EXCEPT !.hide = TRUE]
    ELSE IF event.type = "applyLabel"
    THEN IF \E k \in DOMAIN annotated.labels : annotated.labels[k] = event.label
         THEN annotated
         ELSE [annotated EXCEPT !.labels = Append(@, event.label)]
    ELSE [annotated EXCEPT !.attachLinked = TRUE]

\* The rules from the k-th on, applied in order to the annotation of one
\* post.
RECURSIVE EvaluateRules(_, _, _)
EvaluateRules(engineRules, k, annotated) ==
    IF k > Len(engineRules) THEN annotated
    ELSE EvaluateRules(engineRules, k + 1,
             IF ConditionHolds(engineRules[k].conditions, annotated.status)
             THEN ApplyEvent(engineRules[k].event, annotated)
             ELSE annotated)

\* engine.process(statuses): one annotation per status, in order.
process(engineRules, posts) ==
    [i \in DOMAIN posts |->
        EvaluateRules(engineRules, 1,
            [status |-> posts[i], hide |-> FALSE, labels |-> <<>>,
             attachLinked |-> FALSE])]

(***************************************************************************)
(* The state of the page.                                                  *)
(***************************************************************************)
VARIABLES
    pc,                \* where fetchPostInfoTree stands
    requestedStatus,   \* the status the page is for
    reblog,            \* requestedStatus.reblog?.id (NULL: it is no reblog)
    postIdForContext,  \* the id getStatusContext was called with
    context,           \* ancestors followed by descendants, as fetched
    unsortedStatuses,  \* the statuses not yet added to the tree
    idMap,             \* post id -> node
    nodes,             \* the heap of tree nodes
    rootPost,          \* the root node (0: no tree yet)
    newComment,        \* the comment fetched by the last patch
    patches,           \* how many times a comment was patched in
    repeats,           \* how many of these patched the comment of the call before
    error,             \* the Error the last call threw ("" if none)
    returned,          \* the return of fetchPostInfoTree taken last
    feedPc,            \* where the feed component stands
    rules,             \* props.rules, the rules of the engine of the feed
    statuses,          \* the statuses the feed fetched
    processed          \* the posts resource: what the engine made of them

\* The state of the post page and the state of the feed.
pageVars == <<pc, requestedStatus, reblog, postIdForContext, context, unsortedStatuses, idMap, nodes,
              rootPost, newComment, patches, repeats, error, returned>>

feedVars == <<feedPc, rules, statuses, processed>>

vars == <<pageVars, feedVars>>

Build == [pool |-> unsortedStatuses, heap |-> nodes, root |-> rootPost, idMap |-> idMap]

Init ==
    /\ pc = "idle"
    /\ requestedStatus = NoStatus
    /\ reblog = NULL
    /\ postIdForContext = NULL
    /\ context = <<>>
    /\ unsortedStatuses = <<>>
    /\ idMap = EmptyIdMap
    /\ nodes = <<>>
    /\ rootPost = 0
    /\ newComment = NoStatus
    /\ patches = 0
    /\ repeats = 0
    /\ error = ""
    /\ returned = "none"
    /\ feedPc = "idle"
    /\ rules = <<>>
    /\ statuses = <<>>
    /\ processed = <<>>

\* fetchPostInfoTree, full build: getStatus and getStatusContext answered,
\* the pool and the node of the requested status are set up.
FetchContext ==
    /\ pc = "idle"
    /\ \E irt \in Ids \cup {NULL}, reblogId \in ReblogIds \cup {NULL},
          ctx \in SeqsUpTo(Status, MaxPosts) :
          LET requested == [id |-> RequestedId, in_reply_to_id |-> irt]
              b == BeginBuild(requested, ctx)
          IN  /\ requestedStatus' = requested
              /\ reblog' = reblogId
              /\ postIdForContext' = PostIdForContext(requested, reblogId)
              /\ context' = ctx
              /\ unsortedStatuses' = b.pool
              /\ nodes' = b.heap
              /\ rootPost' = b.root
              /\ idMap' = b.idMap
    /\ pc' = "locate"
    /\ UNCHANGED <<newComment, patches, repeats, error, returned>>
    /\ UNCHANGED feedVars

LocateRootStep ==
    /\ pc = "locate"
    /\ LocateContinues(Build, requestedStatus)
    /\ \E b \in {LocateStep(Build, requestedStatus)} :
           /\ unsortedStatuses' = b.pool
           /\ nodes' = b.heap
           /\ rootPost' = b.root
           /\ idMap' = b.idMap
    /\ UNCHANGED <<pc, requestedStatus, context, newComment, patches, repeats, error, returned>>
    /\ UNCHANGED feedVars
    /\ UNCHANGED <<reblog, postIdForContext>>

LocateRootReturn ==
    /\ pc = "locate"
    /\ ~LocateContinues(Build, requestedStatus)
    /\ pc' = "attach"
    /\ UNCHANGED <<requestedStatus, context, unsortedStatuses, idMap, nodes,
                   rootPost, newComment, patches, repeats, error, returned>>
    /\ UNCHANGED feedVars
    /\ UNCHANGED <<reblog, postIdForContext>>

AttachStatusesPass ==
    /\ pc = "attach"
    /\ Len(unsortedStatuses) > 0
    /\ \E b \in {AttachPass(Build)} :
           /\ unsortedStatuses' = b.pool
           /\ nodes' = b.heap
           /\ rootPost' = b.root
           /\ idMap' = b.idMap
    /\ UNCHANGED <<pc, requestedStatus, context, newComment, patches, repeats, error, returned>>
    /\ UNCHANGED feedVars
    /\ UNCHANGED <<reblog, postIdForContext>>

AttachStatusesReturn ==
    /\ pc = "attach"
    /\ Len(unsortedStatuses) = 0
    /\ pc' = "ready"
    /\ returned' = "built"
    /\ UNCHANGED <<requestedStatus, context, unsortedStatuses, idMap, nodes,
                   rootPost, newComment, patches, repeats, error>>
    /\ UNCHANGED feedVars
    /\ UNCHANGED <<reblog, postIdForContext>>

\* fetchPostInfoTree without a signed-in state (lines 49-51).
FetchNotSignedIn ==
    /\ pc = "idle"
    /\ nodes' = <<PostTreePlaceholderNode([text |-> "not signed in", arg |-> NULL,
                                           detail |-> ""],
                                          <<>>, FALSE)>>
    /\ rootPost' = 1
    /\ pc' = "ready"
    /\ returned' = "not signed in"
    /\ UNCHANGED <<requestedStatus, context, unsortedStatuses, idMap,
                   newComment, patches, repeats, error>>
    /\ UNCHANGED feedVars
    /\ UNCHANGED <<reblog, postIdForContext>>

\* fetchPostInfoTree when getStatusContext fails (lines 123-176): whatever
\* was thrown is caught, and the requested status, highlighted, is returned
\* over a placeholder with the failure.
FetchContextFails ==
    /\ pc = "idle"
    /\ \E irt \in Ids \cup {NULL}, reblogId \in ReblogIds \cup {NULL}, e \in Thrown :
          LET requested == [id |-> RequestedId, in_reply_to_id |-> irt]
          IN  /\ requestedStatus' = requested
              /\ reblog' = reblogId
              /\ postIdForContext' = PostIdForContext(requested, reblogId)
              /\ \E t \in {ContextErrorTree(requested, e)} :
                     /\ nodes' = t.heap
                     /\ rootPost' = t.root
    /\ pc' = "ready"
    /\ returned' = "context failed"
    /\ UNCHANGED <<context, unsortedStatuses, idMap, newComment, patches, repeats, error>>
    /\ UNCHANGED feedVars

\* Lines 70-117 on the tree of the page: it is patched in place, so what
\* was pushed before a throw stays.
Patch(comment) ==
    /\ \E w \in {PatchTree(nodes, rootPost, comment)} :
          /\ nodes' = w.heap
          /\ error' = IF w.thrown THEN "visited the same status twice" ELSE ""
          /\ returned' = IF w.thrown THEN "threw" ELSE "patched"
    /\ newComment' = comment
    /\ patches' = patches + 1
    /\ UNCHANGED <<pc, requestedStatus, context, unsortedStatuses, idMap, rootPost>>
    /\ UNCHANGED feedVars
    /\ UNCHANGED <<reblog, postIdForContext>>

\* fetchPostInfoTree with a previous tree and a new newCommentId
\* (lines 54-117).
PatchNewReply ==
    /\ pc = "ready"
    /\ Len(context) + (patches - repeats) < MaxPosts
    /\ \E comment \in Status : Patch(comment)
    /\ UNCHANGED repeats

\* The resource refetches when the signed-in state changes (lines 407-412)
\* while loadProps still carries the newCommentId of the call before: the
\* same comment is fetched and patched in once more.
PatchSameReply ==
    /\ pc = "ready"
    /\ patches > 0
    /\ repeats < MaxRepeats
    /\ Patch(newComment)
    /\ repeats' = repeats + 1

\* FeedComponent (lines 43-60): the engine is made of props.rules.
NewEngine ==
    /\ feedPc = "idle"
    /\ rules' \in SeqsUpTo(FeedRules, MaxRules)
    /\ feedPc' = "engine"
    /\ UNCHANGED <<statuses, processed>>
    /\ UNCHANGED pageVars

\* The fetcher of the posts resource, lines 82-85: the request is answered.
FetchPosts ==
    /\ feedPc = "engine"
    /\ statuses' \in SeqsUpTo(FeedStatuses, MaxPosts)
    /\ feedPc' = "fetched"
    /\ UNCHANGED <<rules, processed>>
    /\ UNCHANGED pageVars

\* Lines 86-87: the engine processes the statuses and the result is the
\* value of the resource.
ProcessPosts ==
    /\ feedPc = "fetched"
    /\ processed' = process(rules, statuses)
    /\ feedPc' = "processed"
    /\ UNCHANGED <<rules, statuses>>
    /\ UNCHANGED pageVars

Next ==
    \/ FetchNotSignedIn
    \/ FetchContext
    \/ FetchContextFails
    \/ LocateRootStep
    \/ LocateRootReturn
    \/ AttachStatusesPass
    \/ AttachStatusesReturn
    \/ PatchNewReply
    \/ PatchSameReply

Spec == Init /\ [][Next]_vars

\* The feed component on its own.
FeedNext ==
    \/ NewEngine
    \/ FetchPosts
    \/ ProcessPosts

FeedSpec == Init /\ [][FeedNext]_vars

\* Synchronous code runs to completion: a build that has begun is not
\* abandoned between two iterations of its loops.
FairSpec ==
    Spec /\ WF_vars(LocateRootStep \/ LocateRootReturn
                    \/ AttachStatusesPass \/ AttachStatusesReturn)

(***************************************************************************)
(* Reading a tree off the heap.                                            *)
(***************************************************************************)

Range(f) == {f[i] : i \in DOMAIN f}

\* The nodes of the subtree of n, n included.
RECURSIVE Subtree(_, _)
Subtree(heap, n) ==
    {n} \cup UNION {Subtree(heap, c) : c \in Range(heap[n].children)}

\* The nodes of the tree the page holds.
TreeNodes == IF rootPost = 0 THEN {} ELSE Subtree(nodes, rootPost)

StatusNodes(heap, root) == {n \in Subtree(heap, root) : heap[n].kind = "status"}

\* The root chain: the nodes from n down its first children to the
\* highlighted node (line 214 makes the previous root the first child).
RECURSIVE ChainFrom(_, _)
ChainFrom(heap, n) ==
    IF heap[n].highlighted \/ Len(heap[n].children) = 0
    THEN <<n>>
    ELSE <<n>> \o ChainFrom(heap, heap[n].children[1])

Count(seq, x) == Cardinality({i \in DOMAIN seq : seq[i] = x})

RECURSIVE IsSubSeq(_, _)
IsSubSeq(small, big) ==
    IF Len(small) = 0 THEN TRUE
    ELSE IF Len(big) = 0 THEN FALSE
    ELSE IF Head(small) = Head(big) THEN IsSubSeq(Tail(small), Tail(big))
    ELSE IsSubSeq(small, Tail(big))

(***************************************************************************)
(* C1  The full build terminates with the pool empty: a build that has     *)
(* begun reaches the return of attachStatusesToTree with no status left    *)
(* in the pool, every iteration of the loop of locateRootNode and every    *)
(* iteration of the loop of attachStatusesToTree takes at least one        *)
(* status out of the pool, also when no status left can be attached.       *)
(***************************************************************************)
C1_BuildDrainsPool ==
    /\ [][(pc = "locate" /\ pc' = "locate") \/ (pc = "attach" /\ pc' = "attach")
             => Len(unsortedStatuses') < Len(unsortedStatuses)]_vars
    /\ [][pc = "attach" /\ pc' = "ready" => Len(unsortedStatuses') = 0]_vars
    /\ (pc = "locate") ~> (pc = "ready" /\ Len(unsortedStatuses) = 0)

\* A build has returned in which the placeholder step ran twice: after the
\* first one the status left was still unattachable.
C1_Witness ==
    /\ returned = "built"
    /\ Len(context) >= 2
    /\ Len(unsortedStatuses) = 0
    /\ Cardinality({n \in DOMAIN nodes : nodes[n].kind = "placeholder"
                                          /\ nodes[n].message.text = "Missing post id"}) >= 2

(***************************************************************************)
(* What the fetched data says.                                             *)
(***************************************************************************)

\* The requested status followed by its context.
Fetched == <<requestedStatus>> \o context

\* No two fetched statuses carry the same id.
DistinctIds ==
    \A i, j \in DOMAIN Fetched : Fetched[i].id = Fetched[j].id => i = j

\* Following in_reply_to_id upward from a status that replies to id comes
\* back to an id in seen.
RECURSIVE ChainRevisits(_, _)
ChainRevisits(id, seen) ==
    IF id = NULL THEN FALSE
    ELSE IF id \in seen THEN TRUE
    ELSE LET i == FindIndex(Fetched, id)
         IN  IF i = 0 THEN FALSE
             ELSE ChainRevisits(Fetched[i].in_reply_to_id, seen \cup {id})

\* The in_reply_to_id chain of the requested status is cyclic.
CyclicChain == ChainRevisits(requestedStatus.in_reply_to_id, {requestedStatus.id})

\* The full build has returned its tree and nothing was patched in yet.
Built == returned = "built"

\* The nodes strictly below n.
Descendants(heap, n) == Subtree(heap, n) \ {n}

(***************************************************************************)
(* C2  The tree the full build returns has one root, and no post id is     *)
(* wrapped by two nodes of it.                                             *)
(***************************************************************************)
C2_NoDuplicateIds ==
    Built =>
        /\ rootPost \in DOMAIN nodes
        /\ \A n, m \in StatusNodes(nodes, rootPost) :
               nodes[n].status.id = nodes[m].status.id => n = m

(***************************************************************************)
(* C3  Root location indexes every status it visits under the id of that   *)
(* status, and so in the built tree every status of the context that       *)
(* replies to the requested status or to an ancestor on the root chain is  *)
(* a child of the node of the status it replies to.                        *)
(***************************************************************************)
C3_VisitedIndexedUnderOwnId ==
    /\ (pc = "locate" /\ DistinctIds) =>
           \A n \in DOMAIN nodes : idMap[nodes[n].status.id] = n
    /\ (Built /\ DistinctIds) =>
           \A c \in StatusNodes(nodes, rootPost) :
               \A a \in Range(ChainFrom(nodes, rootPost)) :
                   nodes[c].status.in_reply_to_id = nodes[a].status.id
                   => c \in Range(nodes[a].children)

(***************************************************************************)
(* C4  In the built tree every status of the context whose parent is       *)
(* neither fetched nor the requested status has a placeholder of the tree  *)
(* above it.  Stated for fetched data with pairwise distinct ids.          *)
(***************************************************************************)
C4_PlaceholderAboveOrphan ==
    (Built /\ DistinctIds) =>
        \A i \in DOMAIN context :
            (/\ context[i].in_reply_to_id # NULL
             /\ FindIndex(Fetched, context[i].in_reply_to_id) = 0)
            => \E ph \in TreeNodes :
                   /\ nodes[ph].kind = "placeholder"
                   /\ \E n \in Descendants(nodes, ph) : nodes[n].status = context[i]

(***************************************************************************)
(* C6  A build whose requested status has a cyclic in_reply_to_id chain    *)
(* fails with an error: it neither loops nor returns a tree.  Stated for   *)
(* fetched data with pairwise distinct ids.                                *)
(***************************************************************************)
C6_CycleFails ==
    (DistinctIds /\ CyclicChain /\ pc \in {"attach", "ready"}) => error # ""

(***************************************************************************)
(* Comparing trees.                                                        *)
(***************************************************************************)

\* What a node shows, whatever its place in the heap.
Shown(node) ==
    [kind |-> node.kind, status |-> node.status, message |-> node.message,
     highlighted |-> node.highlighted]

\* The parent/child relationships of the tree under root.
EdgesOf(heap, root) ==
    UNION {{<<Shown(heap[n]), Shown(heap[c])>> : c \in Range(heap[n].children)} :
              n \in Subtree(heap, root)}

\* The statuses wrapped by the nodes of the tree under root.
PostsOf(heap, root) == {heap[n].status : n \in StatusNodes(heap, root)}

\* The orderings of a sequence.
Orderings(seq) ==
    {[i \in DOMAIN seq |-> seq[f[i]]] : f \in Permutations(DOMAIN seq)}

\* The build took the placeholder step of lines 259-269.
TookMissingPostStep(heap) ==
    \E n \in DOMAIN heap : heap[n].kind = "placeholder"
                            /\ heap[n].message.text = "Missing post id"

\* Every ordering of the context builds the relationships and the posts of
\* the tree the page holds.
SameTreeForAllOrderings ==
    \A ctx \in Orderings(context) :
        \E b \in {BuildTree(requestedStatus, ctx)} :
            /\ EdgesOf(b.heap, b.root) = EdgesOf(nodes, rootPost)
            /\ PostsOf(b.heap, b.root) = PostsOf(nodes, rootPost)

(***************************************************************************)
(* C5 as claimed: whatever the order of the context, the full build        *)
(* yields the same parent/child relationships and the same posts.  Stated  *)
(* for fetched data with pairwise distinct ids.                            *)
(***************************************************************************)
C5_OrderIndependent ==
    (Built /\ DistinctIds) => SameTreeForAllOrderings

(***************************************************************************)
(* C5 as amended: when the ids are pairwise distinct and the build never   *)
(* takes the placeholder step, every ordering of the context yields the    *)
(* same parent/child relationships and the same posts.                     *)
(***************************************************************************)
C5_OrderIndependentWithoutPlaceholders ==
    (Built /\ DistinctIds /\ ~TookMissingPostStep(nodes)) => SameTreeForAllOrderings

\* A build of two attached statuses, the second replying to the first.
C5_Witness ==
    /\ Built /\ DistinctIds /\ ~TookMissingPostStep(nodes)
    /\ Len(context) = 2
    /\ \E i, j \in DOMAIN context : context[i].in_reply_to_id = context[j].id
    /\ Cardinality(PostsOf(nodes, rootPost)) = 3

(***************************************************************************)
(* C7  Root location.  From the node of the requested status, while the    *)
(* current root replies to a status of the pool, that status leaves the    *)
(* pool and becomes the new root, not highlighted, with the previous root  *)
(* as its only child; the walk stops at the first parent that is missing.  *)
(* The outcome is a single-child chain from the root down to the           *)
(* highlighted node of the requested status, and the statuses that are not *)
(* on the chain are still in the pool, in their order.                     *)
(***************************************************************************)
LocatedChain ==
    LET chain == ChainFrom(nodes, rootPost)
        last == chain[Len(chain)]
        ancestors == [k \in 1..(Len(chain) - 1) |-> nodes[chain[k]].status]
    IN  /\ nodes[last] = PostTreeStatusNode(requestedStatus, <<>>, TRUE)
        /\ \A k \in 1..(Len(chain) - 1) :
               /\ nodes[chain[k]] =
                      PostTreeStatusNode(nodes[chain[k]].status, <<chain[k + 1]>>, FALSE)
               /\ nodes[chain[k + 1]].status.in_reply_to_id = nodes[chain[k]].status.id
        /\ Range(chain) = DOMAIN nodes
        /\ IsSubSeq(unsortedStatuses, context)
        /\ \A s \in Status :
               Count(unsortedStatuses, s) + Count(ancestors, s) = Count(context, s)

StoppedAtMissingParent ==
    \/ nodes[rootPost].status.in_reply_to_id = NULL
    \/ \A i \in DOMAIN unsortedStatuses :
           unsortedStatuses[i].id # nodes[rootPost].status.in_reply_to_id

C7_RootLocation ==
    [][/\ pc' = "locate" => LocatedChain'
       /\ (pc = "locate" /\ pc' = "locate") =>
              /\ ~StoppedAtMissingParent
              /\ nodes'[rootPost'].status.id = nodes[rootPost].status.in_reply_to_id
              /\ Len(unsortedStatuses') = Len(unsortedStatuses) - 1
       /\ (pc = "locate" /\ pc' = "attach") =>
              /\ StoppedAtMissingParent
              /\ LocatedChain'
      ]_vars

\* The requested status 1 replies to 2, the context is the top-level 2 and
\* a reply 3 to the requested status: the root is 2, not highlighted, over
\* the highlighted 1, and 3 is left in the pool.
C7_Witness ==
    /\ pc = "attach"
    /\ requestedStatus = [id |-> 1, in_reply_to_id |-> 2]
    /\ context = <<[id |-> 3, in_reply_to_id |-> 1], [id |-> 2, in_reply_to_id |-> NULL]>>
    /\ unsortedStatuses = <<[id |-> 3, in_reply_to_id |-> 1]>>
    /\ nodes = <<PostTreeStatusNode(requestedStatus, <<>>, TRUE),
                 PostTreeStatusNode([id |-> 2, in_reply_to_id |-> NULL], <<1>>, FALSE)>>
    /\ rootPost = 2

(***************************************************************************)
(* The depth-first walk of a patch, read off the tree.                     *)
(***************************************************************************)

\* The nodes under n in depth-first order, parents before children.
RECURSIVE Preorder(_, _)
RECURSIVE PreorderAll(_, _)
Preorder(heap, n) == <<n>> \o PreorderAll(heap, heap[n].children)

PreorderAll(heap, ns) ==
    IF Len(ns) = 0 THEN <<>>
    ELSE Preorder(heap, Head(ns)) \o PreorderAll(heap, Tail(ns))

\* The status nodes of the tree that wrap a status with this id.
NodesWithId(heap, root, id) ==
    {n \in StatusNodes(heap, root) : heap[n].status.id = id}

\* The first node in depth-first order that wraps a status with this id;
\* 0 when there is none.
FirstWithId(heap, root, id) ==
    LET order == Preorder(heap, root)
        hits == {k \in DOMAIN order : /\ heap[order[k]].kind = "status"
                                      /\ heap[order[k]].status.id = id}
    IN  IF hits = {} THEN 0
        ELSE order[CHOOSE k \in hits : \A h \in hits : k <= h]

\* The status nodes a walk for a reply to id comes to when nothing stops
\* it: all of them but those below the node it attaches to.
Walked(heap, root, id) ==
    LET at == FirstWithId(heap, root, id)
    IN  IF at = 0 THEN StatusNodes(heap, root)
        ELSE StatusNodes(heap, root) \ Descendants(heap, at)

\* Two status nodes of the set wrap the same id.
SharesId(heap, set) ==
    \E n, m \in set : n # m /\ heap[n].status.id = heap[m].status.id

\* The heap after a highlighted childless node of the comment was pushed
\* to the children of parent.
WithReplyUnder(heap, parent, comment) ==
    [k \in 1..(Len(heap) + 1) |->
        IF k = Len(heap) + 1
        THEN [kind |-> "status", status |-> comment, message |-> NoMessage,
              children |-> <<>>, highlighted |-> TRUE]
        ELSE IF k = parent
        THEN [heap[k] EXCEPT !.children = heap[k].children \o <<Len(heap) + 1>>]
        ELSE heap[k]]

\* This step is a call of the incremental path.
Patching == patches' = patches + 1

TargetId == newComment'.in_reply_to_id

C10_RepeatedIdFails ==
    [][(Patching /\ SharesId(nodes, StatusNodes(nodes, rootPost))) =>
          returned' = "threw"
      ]_vars

(***************************************************************************)
(* C10 as amended: a patch fails with the error exactly when two of the    *)
(* status nodes its walk comes to wrap the same id; the walk does not go   *)
(* below the node it attaches the comment to.                              *)
(***************************************************************************)
C10_WalkedRepeatedIdFails ==
    [][Patching =>
          /\ returned' = "threw" <=> SharesId(nodes, Walked(nodes, rootPost, TargetId))
          /\ returned' = "threw" <=> error' = "visited the same status twice"
          /\ returned' \in {"threw", "patched"}
      ]_vars

\* A patch threw on a tree that wraps the id of the requested status twice.
C10_Witness ==
    /\ returned = "threw"
    /\ error = "visited the same status twice"
    /\ Cardinality(NodesWithId(nodes, rootPost, requestedStatus.id)) >= 2

(***************************************************************************)
(* C11  When the requested status was fetched and fetching its context     *)
(* fails, whatever was thrown, the full build throws nothing: it returns   *)
(* the highlighted node of the requested status with exactly one child, a  *)
(* placeholder that is not highlighted, has no child and carries the       *)
(* description of the failure in its message.                              *)
(***************************************************************************)
C11_ContextFailureBecomesPlaceholder ==
    returned = "context failed" =>
        /\ error = ""
        /\ nodes[rootPost].kind = "status"
        /\ nodes[rootPost].status = requestedStatus
        /\ nodes[rootPost].highlighted
        /\ Len(nodes[rootPost].children) = 1
        /\ LET errorNode == nodes[nodes[rootPost].children[1]]
           IN  /\ errorNode.kind = "placeholder"
               /\ ~errorNode.highlighted
               /\ errorNode.children = <<>>
               /\ errorNode.message.text = "Failed to get context for post"
               /\ errorNode.message.arg = requestedStatus.id
               /\ errorNode.message.detail \in
                      {FailureDescription(e) : e \in Thrown} \ {""}

\* The context of a reply failed to load with something that is not an
\* Error.
C11_Witness ==
    /\ returned = "context failed"
    /\ requestedStatus.in_reply_to_id # NULL
    /\ \E n \in TreeNodes : nodes[n].message.detail = "unknown error"

(***************************************************************************)
(* Highlighting.                                                           *)
(***************************************************************************)

\* The nodes created with highlighted = true.
HighlightedNodes(heap) == {n \in DOMAIN heap : heap[n].highlighted}

(***************************************************************************)
(* C12  A node is highlighted only if it wraps the requested status or is  *)
(* the node of a comment that a patch attached; the tree a full build      *)
(* returns has exactly one highlighted node, the one of the requested      *)
(* status; no placeholder is ever highlighted.                             *)
(***************************************************************************)
C12_HighlightedOnlyRequestedOrPatched ==
    [][/\ \A n \in HighlightedNodes(nodes') : nodes'[n].kind = "status"
       /\ ~Patching =>
              \A n \in HighlightedNodes(nodes') : nodes'[n].status = requestedStatus'
       /\ Patching =>
              \A n \in HighlightedNodes(nodes') \ HighlightedNodes(nodes) :
                  /\ n \notin DOMAIN nodes
                  /\ nodes'[n].status = newComment'
                  /\ n \in Subtree(nodes', rootPost')
       /\ returned' \in {"built", "context failed"} =>
              \E n \in Subtree(nodes', rootPost') :
                  /\ HighlightedNodes(nodes') = {n}
                  /\ nodes'[n].status = requestedStatus'
      ]_vars

\* A tree built with a placeholder step, then patched twice: three nodes
\* are highlighted, the one of the requested status and the two patched in.
C12_Witness ==
    /\ returned = "patched"
    /\ TookMissingPostStep(nodes)
    /\ patches = 2
    /\ Cardinality(HighlightedNodes(nodes) \cap TreeNodes) = 3

(***************************************************************************)
(* Placeholders of a build.                                                *)
(***************************************************************************)

\* Every status of the context replies to another status of the context
\* or to the requested status.
EveryParentFetched ==
    \A i \in DOMAIN context :
        /\ context[i].in_reply_to_id # NULL
        /\ \/ context[i].in_reply_to_id = requestedStatus.id
           \/ \E j \in DOMAIN context : j # i /\ context[j].id = context[i].in_reply_to_id

\* No chain of in_reply_to_id comes back to a status it passed.
NoReplyCycle ==
    \A i \in DOMAIN Fetched :
        ~ChainRevisits(Fetched[i].in_reply_to_id, {Fetched[i].id})

\* The placeholders of the tree.
PlaceholdersOf(heap, root) == {n \in Subtree(heap, root) : heap[n].kind = "placeholder"}

\* The build made no placeholder, and none is in its tree.
NoPlaceholder == ~TookMissingPostStep(nodes) /\ PlaceholdersOf(nodes, rootPost) = {}

(***************************************************************************)
(* C13 as claimed: when every status of the context replies to another     *)
(* status of the context or to the requested status, the full build never  *)
(* takes the placeholder step and its tree holds no placeholder.           *)
(***************************************************************************)
C13_NoPlaceholderWhenParentsFetched ==
    (Built /\ EveryParentFetched) => NoPlaceholder

(***************************************************************************)
(* C13 as amended: the same, for fetched data with pairwise distinct ids   *)
(* in which no chain of in_reply_to_id comes back to a status it passed.   *)
(***************************************************************************)
C13_NoPlaceholderWhenParentsFetchedAcyclic ==
    (Built /\ EveryParentFetched /\ DistinctIds /\ NoReplyCycle) => NoPlaceholder

\* A reply to a reply, fetched before the reply it answers: the first pass
\* passes it over and attaches its parent, the second pass attaches it.
C13_Witness ==
    /\ Built /\ EveryParentFetched /\ DistinctIds /\ NoReplyCycle
    /\ Len(context) = 2
    /\ context[1].in_reply_to_id = context[2].id
    /\ context[2].in_reply_to_id = requestedStatus.id
    /\ Cardinality(StatusNodes(nodes, rootPost)) = 3

(***************************************************************************)
(* The annotations of a feed.                                              *)
(***************************************************************************)

\* Some hidePost rule of the feed has a condition that holds for the post.
SomeHideRuleHolds(post) ==
    \E k \in DOMAIN rules :
        /\ rules[k].event.type = "hidePost"
        /\ ConditionHolds(rules[k].conditions, post)

\* There is one annotation per fetched status, in order, around the
\* status as fetched, hidden exactly when a hidePost rule holds for it.
HiddenByHideRules ==
    /\ Len(processed) = Len(statuses)
    /\ \A i \in DOMAIN statuses :
           /\ processed[i].status = statuses[i]
           /\ processed[i].hide <=> SomeHideRuleHolds(statuses[i])

(***************************************************************************)
(* C14  Rule pipeline: whatever the statuses and the ordered rules, the    *)
(* hide flag of a post is true exactly when the condition of at least one  *)
(* hidePost rule holds for it, wherever that rule stands in the list; with *)
(* the preset that hides replies, a post with an in_reply_to_id is hidden  *)
(* and a post without one is not; the fetched statuses are not modified.   *)
(***************************************************************************)
C14_HideIffSomeHideRuleHolds ==
    [][feedPc' = "processed" =>
          /\ statuses' = statuses
          /\ HiddenByHideRules'
          /\ rules = defaultHomeFeedRules =>
                 \A i \in DOMAIN statuses :
                     processed'[i].hide <=> statuses[i].in_reply_to_id # NULL
      ]_vars

\* The preset on a top-level post followed by a reply: the reply is hidden.
C14_Witness ==
    /\ feedPc = "processed"
    /\ rules = defaultHomeFeedRules
    /\ statuses = <<[id |-> 1, in_reply_to_id |-> NULL],
                    [id |-> 2, in_reply_to_id |-> NumIds]>>
    /\ ~processed[1].hide /\ processed[2].hide

(***************************************************************************)
(* One pass of attachStatusesToTree, read off its step.                    *)
(***************************************************************************)

\* The nodes this step created.
NewNodes == DOMAIN nodes' \ DOMAIN nodes

\* This step is an iteration of the while loop of attachStatusesToTree.
AttachingPass == pc = "attach" /\ pc' = "attach"

\* The children of the root after the step.
RootChildren == Range(nodes'[rootPost'].children)

\* How many statuses of the sequence have a null in_reply_to_id.
TopLevelIn(seq) == Cardinality({i \in DOMAIN seq : seq[i].in_reply_to_id = NULL})

(***************************************************************************)
(* C15  When a pass attaches nothing, the last status of the pool is taken *)
(* and wrapped in a placeholder with the message "Missing post id" and the *)
(* in_reply_to_id of the status; the placeholder, not the node of the      *)
(* status, becomes a child of the root, and the id of the status is        *)
(* indexed to the placeholder.                                             *)
(***************************************************************************)
C15_PlaceholderAttachedToRoot ==
    [][AttachingPass =>
          \A ph \in NewNodes :
              nodes'[ph].kind = "placeholder" =>
                  LET taken == unsortedStatuses[Len(unsortedStatuses)]
                  IN  /\ nodes'[ph].message.text = "Missing post id"
                      /\ nodes'[ph].message.arg = taken.in_reply_to_id
                      /\ \E c \in NewNodes :
                             /\ nodes'[ph].children = <<c>>
                             /\ nodes'[c].status = taken
                      /\ idMap'[taken.id] = ph
                      /\ RootChildren \cap NewNodes = {ph}
      ]_vars

(***************************************************************************)
(* C16  A pass attaches a status of the pool that has a null               *)
(* in_reply_to_id as a child of the root the attachment was given and of   *)
(* no other node; the status is indexed under its id and leaves the pool,  *)
(* and none is left in the pool when the build returns.                    *)
(***************************************************************************)
C16_TopLevelAttachedUnderRoot ==
    [][/\ AttachingPass =>
              /\ rootPost' = rootPost
              /\ \A n \in NewNodes :
                     (nodes'[n].kind = "status" /\ nodes'[n].status.in_reply_to_id = NULL)
                     => /\ n \in RootChildren
                        /\ \A m \in DOMAIN nodes' \ {rootPost} :
                               n \notin Range(nodes'[m].children)
                        /\ idMap'[nodes'[n].status.id] \in NewNodes
                        /\ nodes'[idMap'[nodes'[n].status.id]].status.id
                               = nodes'[n].status.id
              /\ TopLevelIn(unsortedStatuses) - TopLevelIn(unsortedStatuses')
                     = Cardinality({n \in NewNodes :
                           /\ nodes'[n].kind = "status"
                           /\ nodes'[n].status.in_reply_to_id = NULL})
              /\ TopLevelIn(unsortedStatuses) > 0 =>
                     \A n \in NewNodes : nodes'[n].kind = "status"
       /\ returned' = "built" => TopLevelIn(unsortedStatuses') = 0
      ]_vars

\* The requested status replies to a fetched ancestor, and two top-level
\* statuses of the context were attached under that ancestor, the root.
C16_Witness ==
    /\ Built
    /\ rootPost # 1
    /\ Cardinality({n \in Range(nodes[rootPost].children) :
                       nodes[n].status.in_reply_to_id = NULL}) >= 1
    /\ Len(nodes[rootPost].children) >= 2

(***************************************************************************)
(* C17  The context of a requested status that is a reblog is requested    *)
(* for the id of the reblogged status, never for the id of the requested   *)
(* status; the context of any other status is requested for its own id.    *)
(* Either way the highlighted node of the built tree wraps the requested   *)
(* status.                                                                 *)
(***************************************************************************)
C17_ContextOfReblogTarget ==
    [][/\ (pc = "idle" /\ requestedStatus' # NoStatus) =>
              /\ reblog' # NULL =>
                     postIdForContext' = reblog' /\ postIdForContext' # requestedStatus'.id
              /\ reblog' = NULL => postIdForContext' = requestedStatus'.id
       /\ returned' \in {"built", "context failed"} =>
              \E n \in Subtree(nodes', rootPost') :
                  /\ HighlightedNodes(nodes') = {n}
                  /\ nodes'[n].status = requestedStatus'
                  /\ nodes'[n].status.id = RequestedId
      ]_vars

\* The tree of a reblog was built from a context of two statuses.
C17_Witness ==
    /\ Built
    /\ reblog # NULL
    /\ postIdForContext = reblog
    /\ Len(context) = 2
    /\ nodes[1].highlighted /\ nodes[1].status.id # reblog

(***************************************************************************)
(* C18  The tree a full build returns for fetched data with pairwise       *)
(* distinct ids wraps every fetched status, the requested one and each     *)
(* status of the context, in exactly one node that is reachable from the   *)
(* root, also a status that replies to one the placeholder step took.      *)
(***************************************************************************)
C18_EveryPostInTree ==
    (Built /\ DistinctIds) =>
        \A i \in DOMAIN Fetched :
            Cardinality({n \in StatusNodes(nodes, rootPost) :
                            nodes[n].status = Fetched[i]}) = 1

(***************************************************************************)
(* What a patch visits.                                                    *)
(***************************************************************************)

\* The ids a walk for a reply to id has visited when it stops at the node
\* it attaches to: those of the status nodes that come before that node in
\* depth-first order, and its own.
VisitedUntilAttached(heap, root, id) ==
    LET order == Preorder(heap, root)
        at == FirstWithId(heap, root, id)
    IN  {heap[order[k]].status.id :
            k \in {j \in DOMAIN order :
                     /\ heap[order[j]].kind = "status"
                     /\ \A i \in 1..(j - 1) : order[i] # at}}

\* This step is a patch of the tree of a full build.
PatchingBuiltTree == Patching /\ requestedStatus # NoStatus

\* The comment of this patch is new to the tree, or it is the comment of
\* the patch before, patched in once more.
NewOrRepeatedComment ==
    \/ NodesWithId(nodes, rootPost, newComment'.id) = {}
    \/ patches > 0 /\ newComment' = newComment

(***************************************************************************)
(* C19  Patches keep the ids of a built tree distinct: a patch of a tree   *)
(* in which no id is wrapped by two status nodes, with a comment that is   *)
(* new or is the comment of the patch before once more, does not fail and  *)
(* leaves a tree in which no id is wrapped by two status nodes.            *)
(***************************************************************************)
C19_PatchesKeepIdsDistinct ==
    [][(/\ PatchingBuiltTree
        /\ NewOrRepeatedComment
        /\ ~SharesId(nodes, StatusNodes(nodes, rootPost))) =>
          /\ returned' = "patched"
          /\ ~SharesId(nodes', StatusNodes(nodes', rootPost'))
      ]_vars

(***************************************************************************)
(* C20  A patch of a built tree stops walking at the node it attaches the  *)
(* comment to: it visits no node after it, and so a patch that fails with  *)
(* the error leaves the tree as it was.                                    *)
(***************************************************************************)
C20_WalkStopsAfterAttaching ==
    [][PatchingBuiltTree =>
          /\ returned' = "threw" => nodes' = nodes
          /\ \E w \in {PatchTree(nodes, rootPost, newComment')} :
                 (w.success /\ ~w.thrown) =>
                     w.visited = VisitedUntilAttached(nodes, rootPost, TargetId)
      ]_vars

(***************************************************************************)
(* What a pass can attach.                                                 *)
(***************************************************************************)

\* The tests of lines 234 and 244: the status has a null in_reply_to_id,
\* or the id it replies to has an entry in the map.
Attachable(status, map) ==
    \/ status.in_reply_to_id = NULL
    \/ map[status.in_reply_to_id] # 0

\* The statuses of the pool a pass can attach as the idMap stands.
AttachableLeft == {i \in DOMAIN unsortedStatuses : Attachable(unsortedStatuses[i], idMap)}

\* This step made a placeholder: it took the step of lines 259-269.
MadePlaceholder == \E n \in NewNodes : nodes'[n].kind = "placeholder"

(***************************************************************************)
(* C21  The placeholder step is only taken when no status left in the pool *)
(* is attachable.  A pass over a pool with an attachable status attaches   *)
(* at least one status and makes no placeholder; a status it leaves in the *)
(* pool, one skipped after a splice included, stays attachable if it was,  *)
(* so it is attached by a later pass: a build that is attaching comes to a *)
(* pool without an attachable status.                                      *)
(***************************************************************************)
C21_PlaceholderOnlyWithoutAttachable ==
    /\ [][AttachingPass =>
              /\ MadePlaceholder => AttachableLeft = {}
              /\ AttachableLeft # {} =>
                     /\ Len(unsortedStatuses') < Len(unsortedStatuses)
                     /\ Len(nodes') - Len(nodes)
                            = Len(unsortedStatuses) - Len(unsortedStatuses')
                     /\ \A n \in NewNodes : nodes'[n].kind = "status"
              /\ \A j \in DOMAIN unsortedStatuses' :
                     Attachable(unsortedStatuses'[j], idMap)
                     => Attachable(unsortedStatuses'[j], idMap')
          ]_vars
    /\ (pc = "attach" /\ AttachableLeft # {}) ~> (AttachableLeft = {})

\* Two replies to the requested status were fetched; the first pass
\* attached the first and skipped the second, which is still in the pool
\* and attachable.
C21_Witness ==
    /\ pc = "attach"
    /\ DistinctIds
    /\ Len(context) = 2
    /\ context[1].in_reply_to_id = requestedStatus.id
    /\ context[2].in_reply_to_id = requestedStatus.id
    /\ unsortedStatuses = <<context[2]>>
    /\ Len(nodes) = 2
    /\ AttachableLeft = {1}

====
